---- MODULE Spec2Model ----
(***************************************************************************)
(* Error handling and notification pipeline of the Vue boilerplate:        *)
(*   - GlobalErrorHandler   (src/src/utils/ERROR-HANDLER__GLOBAL--SYSTEM.js)*)
(*   - notification container (src/unnamed/part_004)                        *)
(*   - HTTP client           (src/src/utils/api)                            *)
(* The browser is single threaded: every handler runs to completion, so    *)
(* every handler is one action.  A handler is written as a function from   *)
(* the state of the page (a record, W) to the state it leaves (Set).       *)
(***************************************************************************)
EXTENDS Integers, Sequences, FiniteSets, TLC

VARIABLES
    errorCount,      \* GlobalErrorHandler.errorCount
    errorHistory,    \* GlobalErrorHandler.errorHistory, most recent first
    retryAttempts,   \* GlobalErrorHandler.retryAttempts: Map key -> count
    recoveryTimers,  \* pending setTimeout callbacks of attemptRecovery
    nextErrorId,     \* the next value generateErrorId yields (time + random)
    steps,           \* what the latest handling of a failure did, in order
    uiStore,         \* notifications handed to window.useUIStore().addNotification
    alerts,          \* texts shown with the browser's alert()
    reports,         \* payloads handed to fetch(reportingEndpoint)
    hasUIStore,      \* window.useUIStore is installed
    notifications,   \* notification container: notifications.value
    timers,          \* notification container: Map id -> timer handle
    armed,           \* setTimeout callbacks of addNotification not yet run or cleared
    nextNoteId,      \* the next value generateId yields (time + random)
    mounted,         \* window.notifications is installed (container mounted)
    hasElMessage,    \* window.ElMessage is installed
    hasVueMessage,   \* window.Vue.prototype.$message is installed
    otherAlerts,     \* alerts shown by the backends other than the container
    localToken,      \* localStorage['auth_token']
    sessionToken,    \* sessionStorage['auth_token']
    pathname,        \* window.location.pathname
    hrefAssigned,    \* assignments to window.location.href since the page loaded
    logoutEvents,    \* 'auth:logout' events dispatched since the page loaded
    nextReq,         \* the number of the next request
    inflight,        \* requests sent whose response has not been intercepted
    rejections,      \* rejected promises returned to callers, not yet settled
    prevented,       \* for each unhandledrejection event: was it marked handled (preventDefault)
    resolved,        \* requests whose promise resolved with response.data
    sink,            \* what the reporting sinks did at the latest call of reportError
    reportResults,   \* how the promises returned by reportError settled, and what was logged
    sessionId,       \* sessionStorage['session-id']
    listeners,       \* GlobalErrorHandler.listeners
    hasError,        \* error boundary: hasError (the fallback is displayed)
    boundaryRetryCount, \* error boundary: retryCount
    retrying,        \* error boundary: retrying
    autoRetry,       \* error boundary: props.autoRetry
    autoRetryTimers, \* error boundary: auto-retry timers not yet run
    retryWaits,      \* error boundary: calls of retry() waiting their 500 ms
    autoRetryLog     \* error boundary: the attempt numbers autoRetryHandler logged

vars == <<errorCount, errorHistory, retryAttempts, recoveryTimers, nextErrorId,
          steps, uiStore, alerts, reports, hasUIStore, notifications, timers,
          armed, nextNoteId, mounted, hasElMessage, otherAlerts, localToken,
          sessionToken, pathname, hrefAssigned, logoutEvents, nextReq,
          inflight, rejections, prevented, hasVueMessage, resolved, sink,
          reportResults, sessionId, listeners, hasError, boundaryRetryCount, retrying,
          autoRetry, autoRetryTimers, retryWaits, autoRetryLog>>

handlerVars == <<errorCount, errorHistory, retryAttempts, recoveryTimers,
                 nextErrorId, steps, uiStore, alerts, reports, hasUIStore,
                 sink, reportResults, sessionId, listeners>>

containerVars == <<notifications, timers, armed, nextNoteId, mounted>>

boundaryVars == <<hasError, boundaryRetryCount, retrying, autoRetry, autoRetryTimers,
                  retryWaits, autoRetryLog>>

httpVars == <<hasElMessage, otherAlerts, localToken, sessionToken, pathname,
              hrefAssigned, logoutEvents, nextReq, inflight, rejections,
              prevented, hasVueMessage, resolved>>

\* The state of the page as one value, so that handlers compose as the code
\* composes them.
W ==
    [errorCount |-> errorCount, errorHistory |-> errorHistory,
     retryAttempts |-> retryAttempts, recoveryTimers |-> recoveryTimers,
     nextErrorId |-> nextErrorId, steps |-> steps, uiStore |-> uiStore,
     alerts |-> alerts, reports |-> reports, hasUIStore |-> hasUIStore,
     notifications |-> notifications, timers |-> timers, armed |-> armed,
     nextNoteId |-> nextNoteId, mounted |-> mounted,
     hasElMessage |-> hasElMessage, otherAlerts |-> otherAlerts,
     localToken |-> localToken, sessionToken |-> sessionToken,
     pathname |-> pathname, hrefAssigned |-> hrefAssigned,
     logoutEvents |-> logoutEvents, nextReq |-> nextReq,
     inflight |-> inflight, rejections |-> rejections, prevented |-> prevented,
     hasVueMessage |-> hasVueMessage, resolved |-> resolved, sink |-> sink,
     reportResults |-> reportResults, sessionId |-> sessionId,
     listeners |-> listeners, hasError |-> hasError, boundaryRetryCount |-> boundaryRetryCount,
     retrying |-> retrying, autoRetry |-> autoRetry,
     autoRetryTimers |-> autoRetryTimers, retryWaits |-> retryWaits,
     autoRetryLog |-> autoRetryLog]

Set(w) ==
    /\ errorCount' = w.errorCount
    /\ errorHistory' = w.errorHistory
    /\ retryAttempts' = w.retryAttempts
    /\ recoveryTimers' = w.recoveryTimers
    /\ nextErrorId' = w.nextErrorId
    /\ steps' = w.steps
    /\ uiStore' = w.uiStore
    /\ alerts' = w.alerts
    /\ reports' = w.reports
    /\ hasUIStore' = w.hasUIStore
    /\ notifications' = w.notifications
    /\ timers' = w.timers
    /\ armed' = w.armed
    /\ nextNoteId' = w.nextNoteId
    /\ mounted' = w.mounted
    /\ hasElMessage' = w.hasElMessage
    /\ otherAlerts' = w.otherAlerts
    /\ localToken' = w.localToken
    /\ sessionToken' = w.sessionToken
    /\ pathname' = w.pathname
    /\ hrefAssigned' = w.hrefAssigned
    /\ logoutEvents' = w.logoutEvents
    /\ inflight' = w.inflight
    /\ rejections' = w.rejections
    /\ prevented' = w.prevented
    /\ nextReq' = w.nextReq
    /\ hasVueMessage' = w.hasVueMessage
    /\ resolved' = w.resolved
    /\ sink' = w.sink
    /\ reportResults' = w.reportResults
    /\ sessionId' = w.sessionId
    /\ listeners' = w.listeners
    /\ hasError' = w.hasError
    /\ boundaryRetryCount' = w.boundaryRetryCount
    /\ retrying' = w.retrying
    /\ autoRetry' = w.autoRetry
    /\ autoRetryTimers' = w.autoRetryTimers
    /\ retryWaits' = w.retryWaits
    /\ autoRetryLog' = w.autoRetryLog

Min(a, b) == IF a < b THEN a ELSE b

\* A value a JavaScript object does not have (undefined): as a string or an
\* object, as a number, and as an id.
Absent == "undefined"
NoNumber == -1
NoId == 0

\* new Map()
EmptyMap == [k \in {} |-> 0]

----------------------------------------------------------------------------
(* Bounds of the model *)

\* failures handled per run of the pipeline specification
MaxErrors == 3
\* failures handled per run of the recovery specification (beyond the ceiling)
MaxRecoveryErrors == 5
\* failures handled per run of the history specification (beyond the capacity)
MaxHistoryErrors == 52
\* notifications created per run
MaxNotes == 3
\* requests sent per page load
MaxRequests == 1
\* requests sent per page load in the authentication specification (concurrent ones)
MaxAuthRequests == 2
\* records reported per run of the reporting specification
MaxReports == 2
\* failures classified per run of the classifier specification
MaxClassified == 2

\* failures handed to the error boundary and its window listeners
MaxBoundaryEvents == 4

----------------------------------------------------------------------------
(* Error types, severities and messages *)

ErrorTypes ==
    {"component_error", "network_error", "javascript_error", "promise_rejection",
     "authentication_error", "permission_error", "validation_error",
     "unknown_error"}

ErrorSeverity == {"low", "medium", "high", "critical"}

\* options of the singleton (constructed with no argument)
maxRetries == 3
retryDelay == 1000
excludeErrors == {"Script error", "Network Error", "ChunkLoadError"}

\* The history capacity.
HistoryLimit == 50

\* The patterns of the code that occur in a message of the model.
Substrings(message) ==
    CASE message = "Script error." -> {"Script error"}
      [] message = "Network Error" -> {"Network Error"}
      [] message = "Loading chunk 5 failed" -> {"Loading chunk"}
      [] message = "Cannot read properties of null" -> {"Cannot read prop"}
      [] message = "Loading chunk 5 failed: Cannot read properties of null" ->
             {"Loading chunk", "Cannot read prop"}
      [] message = "Failed to fetch" -> {"fetch"}
      [] message = "ChunkLoadError: chunk 5" -> {"ChunkLoadError"}
      [] OTHER -> {}

\* String.prototype.includes, on the messages of the model.
Includes(message, pattern) == pattern \in Substrings(message)

----------------------------------------------------------------------------
(* GlobalErrorHandler *)

enableUserNotifications == TRUE
enableErrorReporting == TRUE
enableRecovery == TRUE

\* A value that was thrown or rejected with.  kind is what `instanceof Error`
\* and typeof tell: "Error", "string", "object" or "undefined"; text is the
\* string itself; message, name and stack are the properties of that name
\* (Absent when the value has none); marked stands for the fields isAxiosError
\* looks at (isAxiosError, config, response and request).
Thrown(kind, text, message, name, marked, status, stack) ==
    [kind |-> kind, text |-> text, message |-> message, name |-> name,
     marked |-> marked, status |-> status, stack |-> stack]

\* An Error object thrown by the application.
MkError(message, name, marked) ==
    Thrown("Error", Absent, message, name, marked, 0, "at throw site")

\* The error of a failed request, after the interceptor marked it
\* (error.isAxiosError = true); status is error.response.status, 0 without response.
MkHttpError(message, status) ==
    Thrown("Error", Absent, message, "AxiosError", TRUE, status, "at throw site")

\* throw "text" / Promise.reject("text")
MkString(text) == Thrown("string", text, Absent, Absent, FALSE, 0, Absent)

\* a plain object that was thrown: { message } or { message, isAxiosError: true }
MkObject(message, marked) == Thrown("object", Absent, message, Absent, marked, 0, Absent)

\* undefined or null
Nothing == Thrown("undefined", Absent, Absent, Absent, FALSE, 0, Absent)

\* new Error(message) inside normalizeError: its stack is the one of that call.
NewError(message) == Thrown("Error", Absent, message, "Error", FALSE, 0, "at normalizeError")

\* a property that is undefined or the empty string is falsy
Falsy(value) == value = Absent \/ value = ""

normalizeError(error) ==
    CASE error.kind = "Error" -> error
      [] error.kind = "string" -> NewError(error.text)
      [] error.kind = "object" ->
             [NewError(IF Falsy(error.message) THEN "[object Object]" ELSE error.message)
                 EXCEPT !.marked = error.marked, !.status = error.status]
      [] OTHER -> NewError("Unknown error occurred")

\* additionalInfo of createErrorInfo: the fields a capture point sets.
MkInfo(type, severity, context) ==
    [type |-> type, severity |-> severity, context |-> context]

NoInfo == MkInfo(Absent, Absent, Absent)

\* { ...defaults, ...additionalInfo }: a field of additionalInfo replaces the default.
Spread(default, given) == IF given = Absent THEN default ELSE given

\* The session id createErrorInfo puts into the record: the stored one, or a
\* new one (time + random) when sessionStorage has none.
getSessionId(w) == IF w.sessionId = Absent THEN "session-1" ELSE w.sessionId

createErrorInfo(w, error, additionalInfo) ==
    [id |-> w.nextErrorId,
     message |-> IF Falsy(error.message) THEN "Unknown error" ELSE error.message,
     stack |-> IF Falsy(error.stack) THEN "No stack trace available" ELSE error.stack,
     name |-> IF Falsy(error.name) THEN "Error" ELSE error.name,
     type |-> Spread("unknown_error", additionalInfo.type),
     severity |-> Spread("medium", additionalInfo.severity),
     context |-> Spread("Unknown", additionalInfo.context),
     sessionId |-> getSessionId(w),
     originalError |-> error]

\* What a call of createErrorInfo leaves behind: generateErrorId consumed an id
\* and getSessionId stored the session id it generated.  The handling of a new
\* failure starts here.
classified(w) ==
    [w EXCEPT !.nextErrorId = @ + 1, !.steps = <<"classify">>,
              !.sessionId = getSessionId(w)]

\* What determineSeverity ends with when error.message is undefined:
\* error.message.includes throws a TypeError.
Throws == "TypeError"

determineSeverity_highfirst(error) ==
    IF error.name = "TypeError" /\ Includes(error.message, "Cannot read prop")
    THEN "high"
    ELSE IF \/ error.name = "ChunkLoadError"
            \/ Includes(error.message, "Loading chunk")
            \/ Includes(error.message, "Script error")
    THEN "critical"
    ELSE "medium"

determineSeverity(error) ==
    IF error.name # "ChunkLoadError" /\ error.message = Absent
    THEN Throws
    ELSE
    IF \/ error.name = "ChunkLoadError"
       \/ Includes(error.message, "Loading chunk")
       \/ Includes(error.message, "Script error")
    THEN "critical"
    ELSE IF error.name = "TypeError" /\ Includes(error.message, "Cannot read prop")
    THEN "high"
    ELSE IF error.name = "NetworkError" \/ Includes(error.message, "fetch")
    THEN "medium"
    ELSE "medium"

shouldExcludeError_none(errorInfo) == FALSE

shouldExcludeError(errorInfo) ==
    \E excludePattern \in excludeErrors : Includes(errorInfo.message, excludePattern)

isAxiosError_never(error) == FALSE

isAxiosError(error) == error.marked

addToHistory_keep51(w, errorInfo) ==
    LET h == <<errorInfo>> \o w.errorHistory
    IN  [w EXCEPT !.errorHistory =
                      IF Len(h) > HistoryLimit + 1 THEN SubSeq(h, 1, HistoryLimit + 1) ELSE h,
                  !.steps = Append(@, "history")]

addToHistory(w, errorInfo) ==
    LET h == <<errorInfo>> \o w.errorHistory
    IN  [w EXCEPT !.errorHistory =
                      IF Len(h) > HistoryLimit THEN SubSeq(h, 1, HistoryLimit) ELSE h,
                  !.steps = Append(@, "history")]

getUserFriendlyTitle(errorInfo) ==
    CASE errorInfo.type = "network_error" -> "Connection Error"
      [] errorInfo.type = "authentication_error" -> "Authentication Required"
      [] errorInfo.type = "permission_error" -> "Access Denied"
      [] errorInfo.type = "validation_error" -> "Invalid Input"
      [] errorInfo.type = "component_error" -> "Display Error"
      [] errorInfo.type = "javascript_error" -> "Application Error"
      [] errorInfo.type = "promise_rejection" -> "Operation Failed"
      [] OTHER -> "Error Occurred"

getUserFriendlyMessage(errorInfo) ==
    IF Includes(errorInfo.message, "Network Error")
    THEN "Please check your internet connection and try again."
    ELSE IF Includes(errorInfo.message, "Loading chunk")
    THEN "Failed to load application resources. Please refresh the page."
    ELSE IF Includes(errorInfo.message, "Cannot read prop")
    THEN "Some data is temporarily unavailable. Please try again."
    ELSE IF errorInfo.type = "authentication_error"
    THEN "Your session has expired. Please log in again."
    ELSE CASE errorInfo.severity = "critical" ->
                  "A critical error occurred. Please refresh the page."
           [] errorInfo.severity = "high" ->
                  "An error occurred. The page will attempt to recover automatically."
           [] errorInfo.severity = "medium" ->
                  "A minor error occurred. You can continue using the application."
           [] errorInfo.severity = "low" ->
                  "A minor issue was detected and resolved automatically."
           [] OTHER -> "An unexpected error occurred."

\* The table of getNotificationDuration; a severity it does not list is undefined.
durations(severity) ==
    CASE severity = "low" -> 3000
      [] severity = "medium" -> 5000
      [] severity = "high" -> 8000
      [] severity = "critical" -> 0
      [] OTHER -> NoNumber

\* JavaScript's a || b on a number or undefined: 0 and undefined are falsy.
OrElse(a, b) == IF a = NoNumber \/ a = 0 THEN b ELSE a

getNotificationDuration(severity) == OrElse(durations(severity), 5000)

showUserNotification(w, errorInfo) ==
    LET w1 == [w EXCEPT !.steps = Append(@, "notify")]
    IN  IF w.hasUIStore
        THEN [w1 EXCEPT !.uiStore = Append(@,
                 [type |-> "error",
                  title |-> getUserFriendlyTitle(errorInfo),
                  message |-> getUserFriendlyMessage(errorInfo),
                  duration |-> getNotificationDuration(errorInfo.severity)])]
        ELSE IF errorInfo.severity = "critical"
        THEN [w1 EXCEPT !.alerts = Append(@, getUserFriendlyMessage(errorInfo))]
        ELSE w1

reportingEndpoint == "/api/errors"

\* What the reporting sinks can do at a call of reportError: nothing is wrong
\* (without and with window.gtag installed), gtag throws, JSON.stringify throws
\* (a circular record), or fetch rejects (the network fails).
Sinks == {"ok", "gtag", "gtag_throws", "stringify_throws", "fetch_rejects"}

JSONstringify_keepall(obj, undefinedKeys) == obj

\* JSON.stringify of an object in which the keys of undefinedKeys were set to
\* undefined: a key whose value is undefined is left out of the text.
JSONstringify(obj, undefinedKeys) == [k \in DOMAIN obj \ undefinedKeys |-> obj[k]]

\* The promise an async function returns: fulfilled when its body ends, rejected
\* when its body throws; logged is what console.error was called for.
Settled(w, promise, logged) ==
    [w EXCEPT !.reportResults = Append(@, [promise |-> promise, logged |-> logged])]

\* fetch(reportingEndpoint, { body }) is called: the report is dispatched.
fetch(w, body) ==
    [w EXCEPT !.reports = Append(@, body), !.steps = Append(@, "report")]

reportError_uncaught(w, errorInfo) ==
    CASE w.sink = "gtag_throws" -> Settled(w, "rejected", Absent)
      [] w.sink = "stringify_throws" -> Settled(w, "rejected", Absent)
      [] w.sink = "fetch_rejects" ->
             Settled(fetch(w, JSONstringify(errorInfo, {"originalError"})),
                     "rejected", Absent)
      [] OTHER ->
             Settled(fetch(w, JSONstringify(errorInfo, {"originalError"})),
                     "fulfilled", Absent)

\* reportError runs synchronously up to its await: fetch is called (the report is
\* dispatched) before reportError returns to processError.  Whatever throws inside
\* the try block is caught and logged, and the promise is fulfilled.
reportError(w, errorInfo) ==
    CASE w.sink = "gtag_throws" -> Settled(w, "fulfilled", "gtag")
      [] w.sink = "stringify_throws" -> Settled(w, "fulfilled", "stringify")
      [] reportingEndpoint = "" -> Settled(w, "fulfilled", Absent)
      [] w.sink = "fetch_rejects" ->
             Settled(fetch(w, JSONstringify(errorInfo, {"originalError"})),
                     "fulfilled", "fetch")
      [] OTHER ->
             Settled(fetch(w, JSONstringify(errorInfo, {"originalError"})),
                     "fulfilled", Absent)

errorKey(errorInfo) == <<errorInfo.type, errorInfo.context>>

retryCountOf(attempts, key) == IF key \in DOMAIN attempts THEN attempts[key] ELSE 0

MapSet(map, key, value) ==
    [k \in DOMAIN map \cup {key} |-> IF k = key THEN value ELSE map[k]]

attemptRecovery_noceiling(w, errorInfo) ==
    LET key == errorKey(errorInfo)
        retryCount == retryCountOf(w.retryAttempts, key)
        w1 == [w EXCEPT !.steps = Append(@, "recovery")]
    IN  [w1 EXCEPT !.retryAttempts = MapSet(@, key, retryCount + 1),
                   !.recoveryTimers = @ \cup
                       {[id |-> errorInfo.id, key |-> key,
                         delay |-> retryDelay * (retryCount + 1)]}]

attemptRecovery(w, errorInfo) ==
    LET key == errorKey(errorInfo)
        retryCount == retryCountOf(w.retryAttempts, key)
        w1 == [w EXCEPT !.steps = Append(@, "recovery")]
    IN  IF retryCount >= maxRetries
        THEN w1
        ELSE [w1 EXCEPT !.retryAttempts = MapSet(@, key, retryCount + 1),
                        !.recoveryTimers = @ \cup
                            {[id |-> errorInfo.id, key |-> key,
                              delay |-> retryDelay * (retryCount + 1)]}]

notifyListeners(w, errorInfo) == [w EXCEPT !.steps = Append(@, "listeners")]

processError_recoveryfirst(w, errorInfo) ==
    IF shouldExcludeError(errorInfo)
    THEN w
    ELSE LET w1 == [w EXCEPT !.errorCount = @ + 1]
             w2 == addToHistory(w1, errorInfo)
             w3 == IF enableUserNotifications THEN showUserNotification(w2, errorInfo) ELSE w2
             w4 == IF enableRecovery THEN attemptRecovery(w3, errorInfo) ELSE w3
             w5 == IF enableErrorReporting THEN reportError(w4, errorInfo) ELSE w4
         IN  notifyListeners(w5, errorInfo)

processError(w, errorInfo) ==
    IF shouldExcludeError(errorInfo)
    THEN w
    ELSE LET w1 == [w EXCEPT !.errorCount = @ + 1]
             w2 == addToHistory(w1, errorInfo)
             w3 == IF enableUserNotifications THEN showUserNotification(w2, errorInfo) ELSE w2
             w4 == IF enableErrorReporting THEN reportError(w3, errorInfo) ELSE w3
             w5 == IF enableRecovery THEN attemptRecovery(w4, errorInfo) ELSE w4
         IN  notifyListeners(w5, errorInfo)

\* The number of records of the history whose field has the value.
CountOf(history, field, value) ==
    Cardinality({i \in 1..Len(history) : history[i][field] = value})

getStatistics(w) ==
    [totalErrors |-> w.errorCount,
     recentErrors |-> Len(w.errorHistory),
     typeBreakdown |->
         [t \in {w.errorHistory[i].type : i \in 1..Len(w.errorHistory)} |->
             CountOf(w.errorHistory, "type", t)],
     severityBreakdown |->
         [v \in {w.errorHistory[i].severity : i \in 1..Len(w.errorHistory)} |->
             CountOf(w.errorHistory, "severity", v)],
     retryAttempts |-> w.retryAttempts]

clearHistory_countonly(w) ==
    [w EXCEPT !.retryAttempts = EmptyMap,
              !.errorCount = 0]

clearHistory_keepbudget(w) ==
    [w EXCEPT !.errorHistory = <<>>,
              !.errorCount = 0]

clearHistory(w) ==
    [w EXCEPT !.errorHistory = <<>>,
              !.retryAttempts = EmptyMap,
              !.errorCount = 0]

\* window 'unhandledrejection': the reason of a rejection nobody caught.
handleUnhandledRejection(w, reason) ==
    LET error == normalizeError(reason)
    IN  IF isAxiosError(error)
        THEN [w EXCEPT !.prevented = Append(@, FALSE)]
        ELSE LET errorInfo == createErrorInfo(w, error,
                     MkInfo("promise_rejection", "high", "Unhandled Promise Rejection"))
             IN  [processError(classified(w), errorInfo) EXCEPT
                     !.prevented = Append(@, TRUE)]

\* window 'error'; error is event.error, or the Error made of event.message when
\* the event has none.  The arguments of createErrorInfo are evaluated first: when
\* determineSeverity throws, the listener ends there.
handleGlobalError(w, error) ==
    IF determineSeverity(error) = Throws
    THEN [w EXCEPT !.steps = <<Throws>>]
    ELSE LET errorInfo == createErrorInfo(w, error,
                 MkInfo("javascript_error", determineSeverity(error),
                        "Global JavaScript Error"))
         IN  processError(classified(w), errorInfo)

\* app.config.errorHandler
handleVueError(w, raised) ==
    LET error == normalizeError(raised)
        errorInfo == createErrorInfo(w, error,
            MkInfo("component_error", "medium", "Vue Component Error"))
    IN  processError(classified(w), errorInfo)

\* the exported handleError(error, context)
handleError(w, error, context) ==
    processError(classified(w), createErrorInfo(w, error, context))

\* the exported reportError(error, additionalInfo)
exported_reportError(w, error, additionalInfo) ==
    reportError(classified(w),
        createErrorInfo(w, error,
            [additionalInfo EXCEPT !.type = "unknown_error", !.severity = "medium"]))

----------------------------------------------------------------------------
(* Notification container *)

\* The object passed to addNotification, or the options of a convenience method:
\* a field not given is NoId, Absent or NoNumber.
MkNote(id, type, title, message, duration) ==
    [id |-> id, type |-> type, title |-> title, message |-> message,
     duration |-> duration]

SpreadNumber(default, given) == IF given = NoNumber THEN default ELSE given

\* The id a notification would be stored under if the generated id could not
\* be replaced: with it the timers and the active set agree.
storedId_generated(generated, given) == generated

\* The id the notification is stored under: `...notification` comes after `id`
\* in the object literal, so an id of the caller replaces the generated one.
\* `created` is the id generateId returned: the one the timer callback and the
\* Map of timers use, and the one addNotification returns.

storedId(generated, given) == IF given = NoId THEN generated ELSE given

addNotification(w, notification) ==
    LET id == w.nextNoteId
        newNotification ==
            [id |-> storedId(id, notification.id),
             created |-> id,
             type |-> Spread("info", notification.type),
             title |-> Spread("", notification.title),
             message |-> Spread("", notification.message),
             duration |-> SpreadNumber(5000, notification.duration)]
        w1 == [w EXCEPT !.nextNoteId = @ + 1,
                        !.notifications = Append(@, newNotification)]
    IN  IF newNotification.duration > 0
        THEN [w1 EXCEPT !.armed = @ \cup {id}, !.timers = @ \cup {id}]
        ELSE w1

\* Array.prototype.findIndex on the id; 0 when there is none (-1 in the code).
findIndex(list, id) ==
    IF \E i \in 1..Len(list) : list[i].id = id
    THEN CHOOSE i \in 1..Len(list) :
             /\ list[i].id = id
             /\ \A j \in 1..(i - 1) : list[j].id # id
    ELSE 0

\* Array.prototype.splice(index, 1)
RemoveAt(list, index) ==
    SubSeq(list, 1, index - 1) \o SubSeq(list, index + 1, Len(list))

dismiss(w, id) ==
    LET index == findIndex(w.notifications, id)
    IN  IF index > 0
        THEN LET w1 == [w EXCEPT !.notifications = RemoveAt(@, index)]
             IN  IF id \in w.timers
                 THEN [w1 EXCEPT !.armed = @ \ {id}, !.timers = @ \ {id}]
                 ELSE w1
        ELSE w

clearAll(w) ==
    [w EXCEPT !.notifications = <<>>,
              !.armed = @ \ w.timers,
              !.timers = {}]

\* The callback of the timer addNotification armed for the generated id.
timerCallback(w, id) == dismiss([w EXCEPT !.armed = @ \ {id}], id)

showSuccess(w, message, options) ==
    addNotification(w, MkNote(options.id, Spread("success", options.type),
        options.title, Spread(message, options.message), options.duration))

showError_default5000(w, message, options) ==
    addNotification(w, MkNote(options.id, Spread("error", options.type),
        options.title, Spread(message, options.message), options.duration))

showError(w, message, options) ==
    addNotification(w, MkNote(options.id, Spread("error", options.type),
        options.title, Spread(message, options.message),
        SpreadNumber(0, options.duration)))

showWarning(w, message, options) ==
    addNotification(w, MkNote(options.id, Spread("warning", options.type),
        options.title, Spread(message, options.message), options.duration))

showInfo(w, message, options) ==
    addNotification(w, MkNote(options.id, Spread("info", options.type),
        options.title, Spread(message, options.message), options.duration))

\* onMounted / onUnmounted of the container
onMounted(w) == [w EXCEPT !.mounted = TRUE]

onUnmounted(w) == [clearAll(w) EXCEPT !.mounted = FALSE]

----------------------------------------------------------------------------
(* HTTP client: authentication utilities, showAlert and the response interceptors *)

\* localStorage.getItem(TOKEN_KEY) || sessionStorage.getItem(TOKEN_KEY): a
\* missing or empty entry of localStorage gives the entry of sessionStorage.
getToken(w) == IF ~Falsy(w.localToken) THEN w.localToken ELSE w.sessionToken

\* !isNullOrWhitespace(getToken())
isAuthenticated(w) == ~(getToken(w) = Absent \/ getToken(w) = "")

setToken_keepother(w, token, remember) ==
    IF remember
    THEN [w EXCEPT !.localToken = token]
    ELSE [w EXCEPT !.sessionToken = token]

setToken(w, token, remember) ==
    IF remember
    THEN [w EXCEPT !.localToken = token, !.sessionToken = Absent]
    ELSE [w EXCEPT !.sessionToken = token, !.localToken = Absent]

removeToken(w) == [w EXCEPT !.localToken = Absent, !.sessionToken = Absent]

\* window.location.pathname.includes('/login'), on the paths of the model
onLoginPage(w) == w.pathname = "/login"

reLogIn_keeptoken(w) ==
    LET w2 == [w EXCEPT !.logoutEvents = @ + 1]
    IN  IF ~onLoginPage(w2)
        THEN [w2 EXCEPT !.hrefAssigned = @ + 1]
        ELSE w2

reLogIn(w) ==
    LET w1 == removeToken(w)
        w2 == [w1 EXCEPT !.logoutEvents = @ + 1]
    IN  IF ~onLoginPage(w2)
        THEN [w2 EXCEPT !.hrefAssigned = @ + 1]
        ELSE w2

\* showAlert({ text, type, title, duration }); duration NoNumber when not given.
showAlert(w, text, type, title, duration) ==
    IF w.mounted
    THEN LET options == MkNote(NoId, Absent, title, Absent,
                 IF duration # NoNumber THEN duration
                 ELSE IF type = "error" THEN 0 ELSE 5000)
         IN  CASE type = "error" -> showError(w, text, options)
               [] type = "warning" -> showWarning(w, text, options)
               [] type = "success" -> showSuccess(w, text, options)
               [] OTHER -> showInfo(w, text, options)
    ELSE IF w.hasElMessage
    THEN [w EXCEPT !.otherAlerts = Append(@,
             [via |-> "ElMessage", text |-> text,
              type |-> IF type = "error" THEN "error"
                       ELSE IF type = "warning" THEN "warning" ELSE "info",
              duration |-> IF type = "error" THEN 0 ELSE 3000])]
    ELSE IF w.hasVueMessage
    THEN [w EXCEPT !.otherAlerts = Append(@,
             [via |-> "Vue.$message", text |-> text, type |-> type,
              duration |-> NoNumber])]
    ELSE LET w1 == [w EXCEPT !.otherAlerts = Append(@,
                       [via |-> "app:alert", text |-> text, type |-> type,
                        duration |-> NoNumber])]
         IN  IF type = "error"
             THEN [w1 EXCEPT !.alerts = Append(@, text)]
             ELSE w1

\* The promise of the request resolves: request/get/post/... return response.data.
resolve(w, req) == [w EXCEPT !.resolved = @ \cup {req}]

reject_resolves(w, req, error) == resolve(w, req)

\* Promise.reject(error) returned through request/get/post/... to the caller
reject(w, req, error) ==
    [w EXCEPT !.rejections = @ \cup {[req |-> req, error |-> error]}]

\* The fulfilled branch of the response interceptor, for a 2xx response whose
\* body is { code, message } (message "" when the body has none).
responseFulfilled(w, req, code, message) ==
    IF code = 10002 \/ code = 10004
    THEN LET w1 == showAlert(w, "Your session has expired. Please log in again.",
                       "warning", "Session Expired", NoNumber)
             w2 == reLogIn(w1)
         IN  reject(w2, req, MkError("Authentication expired", "Error", FALSE))
    ELSE IF code = -1
    THEN LET text == IF message = "" THEN "Operation failed" ELSE message
             w1 == showAlert(w, text, "error", "Error", NoNumber)
         IN  reject(w1, req, MkError(text, "Error", FALSE))
    ELSE resolve(w, req)

HTTP_STATUS_MESSAGES(status) ==
    CASE status = 400 -> "Bad request - please check your input"
      [] status = 401 -> "Unauthorized - please log in"
      [] status = 403 -> "Forbidden - insufficient permissions"
      [] status = 404 -> "Resource not found"
      [] status = 500 -> "Internal server error"
      [] status = 503 -> "Service unavailable"
      [] OTHER -> "An error occurred"

\* `HTTP ${status} Error`, on the statuses of the model
HttpErrorContext(status) ==
    CASE status = 500 -> "HTTP 500 Error"
      [] status = 503 -> "HTTP 503 Error"
      [] OTHER -> "HTTP Error"

\* window.globalErrorHandler.processError(createErrorInfo(error, info))
reportToGlobalHandler(w, error, info) ==
    processError(classified(w), createErrorInfo(w, error, info))

\* The rejected branch of the response interceptor.  failure is what axios
\* reports: "timeout" (code ECONNABORTED), "response" (with a status),
\* "request" (no response received) or "other".
responseRejected(w, req, failure, status, message) ==
    LET error == MkHttpError(message, IF failure = "response" THEN status ELSE 0)
        w1 ==
            IF failure = "timeout"
            THEN reportToGlobalHandler(
                     showAlert(w, "Request timeout. Please try again.", "error",
                               "Timeout", 8000),
                     error, MkInfo("network_error", "medium", "HTTP Request Timeout"))
            ELSE IF failure = "response"
            THEN IF status = 401
                 THEN reLogIn(showAlert(w,
                          "Your session has expired. Redirecting to login...",
                          "warning", "Authentication Required", 3000))
                 ELSE IF status >= 500
                 THEN reportToGlobalHandler(
                          showAlert(w, "Server error occurred. Please try again later.",
                                    "error", "Server Error", 8000),
                          error, MkInfo("network_error", "high", HttpErrorContext(status)))
                 ELSE IF status >= 400
                 THEN showAlert(w, HTTP_STATUS_MESSAGES(status), "warning",
                                "Request Error", 5000)
                 ELSE w
            ELSE IF failure = "request"
            THEN reportToGlobalHandler(
                     showAlert(w, "Network error. Please check your connection and try again.",
                               "error", "Connection Error", 8000),
                     error, MkInfo("network_error", "high", "Network Connection Error"))
            ELSE showAlert(w, IF message = "" THEN "An unexpected error occurred" ELSE message,
                           "error", "Error", 5000)
    IN  reject(w1, req, error)

----------------------------------------------------------------------------
(* ErrorBoundary and the handlers App attaches to it *)

\* props.maxRetries: the default, and the value App passes
props_maxRetries == 3

\* App.handleError, the listener of the boundary's 'error' event:
\* window.notifications exists while the container is mounted.
App_handleError(w) ==
    IF w.mounted
    THEN showError(w, "A component error occurred",
                   MkNote(NoId, Absent, "Component Error", Absent, 8000))
    ELSE w

\* App.handleRetry, the listener of the boundary's 'retry' event
App_handleRetry(w) ==
    IF w.mounted
    THEN showInfo(w, "Attempting to recover from error",
                  MkNote(NoId, Absent, Absent, Absent, 3000))
    ELSE w

\* error.message throws a TypeError when the captured value is null or
\* undefined; the hook then ends without a return value.
hookThrows(error) == error.kind = "undefined"

\* The value onErrorCaptured returns: false, or nothing when it threw.
hookReturnsFalse(error) == ~hookThrows(error)

\* onErrorCaptured: the state the hook leaves.
onErrorCaptured(w, error) ==
    LET failed == [w EXCEPT !.hasError = TRUE]
    IN  IF hookThrows(error)
        THEN failed
        ELSE LET emitted == App_handleError(failed)
             IN  IF emitted.autoRetry /\ emitted.boundaryRetryCount < props_maxRetries
                 THEN [emitted EXCEPT !.autoRetryTimers = @ + 1]
                 ELSE emitted

\* A failure of a component below the boundary: the hook runs; an error the hook
\* threw goes to app.config.errorHandler, and so does the captured value when
\* the hook did not return false.
errorCaptured(w, error) ==
    IF hookReturnsFalse(error)
    THEN onErrorCaptured(w, error)
    ELSE handleVueError(
             handleVueError(onErrorCaptured(w, error),
                 MkError("Cannot read properties of null", "TypeError", FALSE)),
             error)

\* retry(), up to its await
retry(w) ==
    [w EXCEPT !.retrying = TRUE, !.boundaryRetryCount = @ + 1, !.retryWaits = @ + 1]

\* retry(), after the 500 ms it waits
retryResumes(w) ==
    [App_handleRetry([w EXCEPT !.hasError = FALSE, !.retryWaits = @ - 1])
        EXCEPT !.retrying = FALSE]

\* autoRetryHandler, the callback of the timer onErrorCaptured set: it logs
\* "Auto-retry attempt n/maxRetries" and calls retry().
autoRetryHandler(w) ==
    retry([w EXCEPT !.autoRetryTimers = @ - 1,
                    !.autoRetryLog = Append(@, w.boundaryRetryCount + 1)])

\* reset(), exposed to the parent
reset(w) == [w EXCEPT !.hasError = FALSE, !.boundaryRetryCount = 0]

\* the boundary's listener of window 'unhandledrejection'
boundary_handleUnhandledRejection(w, reason) ==
    IF reason.marked THEN w ELSE [w EXCEPT !.hasError = TRUE]

\* the boundary's listener of window 'error'
boundary_handleGlobalError(w) == [w EXCEPT !.hasError = TRUE]

----------------------------------------------------------------------------
(* The page after it loaded *)

InitHandler ==
    /\ errorCount = 0
    /\ errorHistory = <<>>
    /\ retryAttempts = EmptyMap
    /\ recoveryTimers = {}
    /\ nextErrorId = 1
    /\ steps = <<>>
    /\ uiStore = <<>>
    /\ alerts = <<>>
    /\ reports = <<>>
    /\ sink = "ok"
    /\ reportResults = <<>>
    /\ sessionId = Absent
    /\ listeners = {"App"}

\* The error boundary as App mounts it (auto-retry off).
InitBoundary ==
    /\ hasError = FALSE
    /\ boundaryRetryCount = 0
    /\ retrying = FALSE
    /\ autoRetryTimers = 0
    /\ retryWaits = 0
    /\ autoRetryLog = <<>>

InitContainer ==
    /\ notifications = <<>>
    /\ timers = {}
    /\ armed = {}
    /\ nextNoteId = 1

InitHttp ==
    /\ otherAlerts = <<>>
    /\ hrefAssigned = 0
    /\ logoutEvents = 0
    /\ nextReq = 1
    /\ inflight = {}
    /\ rejections = {}
    /\ prevented = <<>>
    /\ resolved = {}

\* The notification backends a page can have: the container, or one of the
\* fallbacks of showAlert, or none.
Backends ==
    {<<TRUE, FALSE, FALSE>>, <<FALSE, TRUE, FALSE>>, <<FALSE, FALSE, TRUE>>,
     <<FALSE, FALSE, FALSE>>}

\* The page with the container mounted and nobody logged in.
InitPlain ==
    /\ InitHandler /\ InitContainer /\ InitHttp /\ InitBoundary
    /\ autoRetry = FALSE
    /\ hasUIStore \in BOOLEAN
    /\ mounted = TRUE
    /\ hasElMessage = FALSE
    /\ hasVueMessage = FALSE
    /\ localToken = Absent
    /\ sessionToken = Absent
    /\ pathname = "/"

\* Any page: with or without a token (in either storage), on any path.
Init ==
    /\ InitHandler /\ InitContainer /\ InitHttp /\ InitBoundary
    /\ autoRetry = FALSE
    /\ hasUIStore \in BOOLEAN
    /\ \E b \in Backends :
           /\ mounted = b[1]
           /\ hasElMessage = b[2]
           /\ hasVueMessage = b[3]
    /\ \E stored \in {<<"token", Absent>>, <<Absent, "token">>, <<Absent, Absent>>} :
           /\ localToken = stored[1]
           /\ sessionToken = stored[2]
    /\ pathname \in {"/", "/login"}

\* The page with the boundary's auto-retry on or off (the prop of the component).
InitBoundaryPage ==
    /\ InitHandler /\ InitContainer /\ InitHttp /\ InitBoundary
    /\ autoRetry \in BOOLEAN
    /\ hasUIStore = FALSE
    /\ mounted = TRUE
    /\ hasElMessage = FALSE
    /\ hasVueMessage = FALSE
    /\ localToken = Absent
    /\ sessionToken = Absent
    /\ pathname = "/"

\* The page with the boundary's auto-retry on.
InitAutoRetry == InitBoundaryPage /\ autoRetry = TRUE

----------------------------------------------------------------------------
(* Inputs *)

PlainError == MkError("disk full", "Error", FALSE)

\* reasons of unhandled rejections raised outside the HTTP client
RejectionReasons == {PlainError, MkHttpError("Network Error", 0)}

\* errors of window 'error' events
ScriptErrors ==
    {MkError("Cannot read properties of null", "TypeError", FALSE),
     MkError("Loading chunk 5 failed", "Error", FALSE),
     MkError("Script error.", "Error", FALSE)}

\* values thrown in components or rejected with: an Error, a string, plain
\* objects (one of them tagged as the HTTP client's), nothing, a tagged Error
RawValues ==
    {PlainError, MkString("disk full"), MkObject("quota exceeded", FALSE),
     MkObject("Request failed with status code 500", TRUE), Nothing,
     MkHttpError("Request failed with status code 500", 500)}

\* what window 'error' events carry: Errors of several names and messages, and a
\* string that was thrown
ThrownInScripts ==
    {MkError("disk full", "Error", FALSE),
     MkError("disk full", "TypeError", FALSE),
     MkError("disk full", "ChunkLoadError", FALSE),
     MkError("Cannot read properties of null", "Error", FALSE),
     MkError("Cannot read properties of null", "TypeError", FALSE),
     MkError("Loading chunk 5 failed", "Error", FALSE),
     MkError("Loading chunk 5 failed: Cannot read properties of null", "TypeError", FALSE),
     MkError("Script error.", "Error", FALSE),
     MkString("disk full")}

\* the context a caller of handleError supplies
Contexts ==
    {MkInfo(Absent, "low", Absent), MkInfo("validation_error", Absent, "form"),
     MkInfo("timeout", "fatal", "checkout")}

\* calls of the exported handleError(error, context), with each context and
\* with a value that is not an Error
ClassifiedCalls ==
    {<<PlainError, context>> : context \in Contexts}
    \cup {<<MkString("disk full"), MkInfo(Absent, "low", Absent)>>}

\* calls of the exported handleError(error, context)
HandleErrorCalls ==
    {<<MkError("quota exceeded", "Error", FALSE), MkInfo(Absent, "low", Absent)>>}

\* objects passed to addNotification
NoteInputs ==
    {MkNote(id, Absent, Absent, "saved", duration) :
        id \in {NoId, 101}, duration \in {NoNumber, 0}}

\* options passed to the error() helper
ErrorOptions ==
    {MkNote(NoId, Absent, "Oops", Absent, duration) : duration \in {NoNumber, 3000}}

\* ids dismiss can be called with: a stored id, or one that no notification has
DismissIds == {notifications[i].id : i \in 1..Len(notifications)} \cup {999}

\* calls of showAlert: <<type, duration>>
AlertCalls == {<<type, duration>> : type \in {"error", "warning"}, duration \in {NoNumber, 3000}}

\* the body of a 2xx response: { code, message }
ResponseCodes == {0, 10002, 10004, -1}
ResponseMessages == {"", "quota exceeded"}

\* what axios rejects with: <<failure, status, message>>
Failures ==
    {<<"timeout", 0, "timeout of 60000ms exceeded">>,
     <<"response", 401, "Request failed with status code 401">>,
     <<"response", 404, "Request failed with status code 404">>,
     <<"response", 500, "Request failed with status code 500">>,
     <<"request", 0, "Network Error">>,
     <<"other", 0, "disk full">>}

\* a 401 response, as axios rejects with it
Failure401 == <<"response", 401, "Request failed with status code 401">>

\* values components throw below the boundary: an Error, a string, null
BoundaryErrors == {PlainError, MkString("disk full"), Nothing}

\* reasons of unhandled rejections while the boundary is mounted
BoundaryReasons == {PlainError, MkHttpError("Request failed with status code 500", 500)}

\* tokens the application stores after a login
Tokens == {"token", "renewed", ""}

\* errors whose message contains an entry of excludeErrors, and one that has none
ExclusionErrors ==
    {MkError("Script error.", "Error", FALSE),
     MkError("Network Error", "Error", FALSE),
     MkError("ChunkLoadError: chunk 5", "Error", FALSE),
     PlainError}

----------------------------------------------------------------------------
(* Actions: one per handler *)

\* failures the capture points were handed so far: the classified ones and the
\* rejections skipped as the HTTP client's
Captured == (nextErrorId - 1) + Len(SelectSeq(prevented, LAMBDA p : ~p))

UnhandledRejection(error) ==
    /\ nextErrorId <= MaxErrors
    /\ Captured < MaxErrors
    /\ Set(handleUnhandledRejection(W, error))

GlobalError(error) ==
    /\ nextErrorId <= MaxErrors
    /\ Captured < MaxErrors
    /\ Set(handleGlobalError(W, error))

VueError(error) ==
    /\ nextErrorId <= MaxErrors
    /\ Captured < MaxErrors
    /\ Set(handleVueError(W, error))

HandleError(error, context) ==
    /\ nextErrorId <= MaxErrors
    /\ Captured < MaxErrors
    /\ Set(handleError(W, error, context))

\* The history specification handles more failures, all of one kind.
VueErrorMany ==
    /\ nextErrorId <= MaxHistoryErrors
    /\ Set(handleVueError(W, PlainError))

\* The recovery specification handles failures of two correlation keys.
VueErrorAgain ==
    /\ nextErrorId <= MaxRecoveryErrors
    /\ Set(handleVueError(W, PlainError))

UnhandledRejectionAgain ==
    /\ nextErrorId <= MaxRecoveryErrors
    /\ Set(handleUnhandledRejection(W, PlainError))

\* The capture points, with the values of the classifier specification.
RejectionOf(reason) ==
    /\ nextErrorId <= MaxClassified
    /\ Captured < MaxClassified
    /\ Set(handleUnhandledRejection(W, reason))

ScriptErrorOf(error) ==
    /\ nextErrorId <= MaxClassified
    /\ Captured < MaxClassified
    /\ Set(handleGlobalError(W, error))

ComponentErrorOf(raised) ==
    /\ nextErrorId <= MaxClassified
    /\ Captured < MaxClassified
    /\ Set(handleVueError(W, raised))

HandleErrorOf(error, context) ==
    /\ nextErrorId <= MaxClassified
    /\ Captured < MaxClassified
    /\ Set(handleError(W, error, context))

ReportErrorOf(error) ==
    /\ nextErrorId <= MaxClassified
    /\ Captured < MaxClassified
    /\ Set(exported_reportError(W, error, MkInfo(Absent, "critical", "checkout")))

\* A failure is handled while the reporting sinks behave as `outcome` says.
VueErrorReporting(outcome) ==
    /\ nextErrorId <= MaxReports
    /\ Set(handleVueError([W EXCEPT !.sink = outcome], PlainError))

GlobalErrorReporting(outcome, error) ==
    /\ nextErrorId <= MaxReports
    /\ Set(handleGlobalError([W EXCEPT !.sink = outcome], error))

\* The application calls the exported reportError.
ReportErrorCall(outcome, error) ==
    /\ nextErrorId <= MaxReports
    /\ Set(exported_reportError([W EXCEPT !.sink = outcome], error,
                                 MkInfo(Absent, "critical", "checkout")))

ClearHistory == Set(clearHistory(W))

\* The callback attemptRecovery scheduled runs: the recovery strategies only log.
RecoveryTimerFires ==
    \E t \in recoveryTimers :
        /\ recoveryTimers' = recoveryTimers \ {t}
        /\ UNCHANGED <<errorCount, errorHistory, retryAttempts, nextErrorId, steps,
                       uiStore, alerts, reports, hasUIStore, sink, reportResults,
                       sessionId, listeners>>
        /\ UNCHANGED boundaryVars
        /\ UNCHANGED containerVars
        /\ UNCHANGED httpVars

\* notifications and alerts shown so far
Shown == (nextNoteId - 1) + Len(otherAlerts)

AddNotification(notification) ==
    /\ Shown < MaxNotes
    /\ Set(addNotification(W, notification))

ShowError(options) ==
    /\ Shown < MaxNotes
    /\ Set(showError(W, "failed", options))

ShowAlert(type, duration) ==
    /\ Shown < MaxNotes
    /\ Set(showAlert(W, "failed", type, "Oops", duration))

Dismiss(id) == Set(dismiss(W, id))

ClearAll == Set(clearAll(W))

TimerExpiry(id) ==
    /\ id \in armed
    /\ Set(timerCallback(W, id))

Mount ==
    /\ ~mounted
    /\ Set(onMounted(W))

Unmount ==
    /\ mounted
    /\ Set(onUnmounted(W))

Send(limit) ==
    /\ nextReq <= limit
    /\ nextReq' = nextReq + 1
    /\ inflight' = inflight \cup {[id |-> nextReq, sentAfter |-> logoutEvents]}
    /\ UNCHANGED handlerVars
    /\ UNCHANGED containerVars
    /\ UNCHANGED boundaryVars
    /\ UNCHANGED <<hasElMessage, hasVueMessage, otherAlerts, localToken, sessionToken,
                   pathname, hrefAssigned, logoutEvents, rejections, prevented,
                   resolved>>

SendRequest == Send(MaxRequests)

SendRequestAuth == Send(MaxAuthRequests)

ResponseFulfilled(r, code, message) ==
    /\ r \in inflight
    /\ Set(responseFulfilled([W EXCEPT !.inflight = @ \ {r}], r.id, code, message))

ResponseRejected(r, f) ==
    /\ r \in inflight
    /\ Set(responseRejected([W EXCEPT !.inflight = @ \ {r}], r.id, f[1], f[2], f[3]))

\* The caller catches the rejection.
CallerCatches(rejection) ==
    /\ rejection \in rejections
    /\ Set([W EXCEPT !.rejections = @ \ {rejection}])

\* Nobody catches it: the browser raises 'unhandledrejection' with its reason.
RejectionUnhandled(rejection) ==
    /\ rejection \in rejections
    /\ Set(handleUnhandledRejection([W EXCEPT !.rejections = @ \ {rejection}],
                                    rejection.error))

\* failures the boundary and the window listeners were handed so far
BoundaryEvents == Shown + (nextErrorId - 1) + Len(prevented)

ErrorCaptured(error) ==
    /\ BoundaryEvents < MaxBoundaryEvents
    /\ Set(errorCaptured(W, error))

\* the timer onErrorCaptured set expires
AutoRetryTimerFires ==
    /\ autoRetryTimers > 0
    /\ Set(autoRetryHandler(W))

\* the user clicks "Try Again": the button is shown with the fallback and
\* disabled while retrying
Retry ==
    /\ hasError
    /\ ~retrying
    /\ Set(retry(W))

RetryResumes ==
    /\ retryWaits > 0
    /\ Set(retryResumes(W))

Reset ==
    /\ hasError \/ boundaryRetryCount > 0
    /\ Set(reset(W))

\* window 'unhandledrejection' with both listeners: the global handler's
\* (added by initialize) and then the boundary's (added when it mounted)
WindowRejection(reason) ==
    /\ BoundaryEvents < MaxBoundaryEvents
    /\ Set(boundary_handleUnhandledRejection(handleUnhandledRejection(W, reason), reason))

\* window 'error' with both listeners
WindowError(error) ==
    /\ BoundaryEvents < MaxBoundaryEvents
    /\ Set(boundary_handleGlobalError(handleGlobalError(W, error)))

\* the application stores the token of a login
SetToken(token, remember) == Set(setToken(W, token, remember))

\* the application logs out
RemoveToken == Set(removeToken(W))

\* clearHistory is called after one of the first failures, or after the last
ClearHistoryEarlyOrLate ==
    /\ nextErrorId <= MaxErrors + 1 \/ nextErrorId > MaxHistoryErrors
    /\ Set(clearHistory(W))

\* The navigation that an assignment to window.location.href started completes:
\* the page is left and the login page loads.  Storage survives.
NavigationCommit ==
    /\ hrefAssigned > 0
    /\ errorCount' = 0
    /\ errorHistory' = <<>>
    /\ retryAttempts' = EmptyMap
    /\ recoveryTimers' = {}
    /\ nextErrorId' = 1
    /\ steps' = <<>>
    /\ uiStore' = <<>>
    /\ alerts' = <<>>
    /\ reports' = <<>>
    /\ notifications' = <<>>
    /\ timers' = {}
    /\ armed' = {}
    /\ nextNoteId' = 1
    /\ otherAlerts' = <<>>
    /\ hrefAssigned' = 0
    /\ logoutEvents' = 0
    /\ nextReq' = 1
    /\ inflight' = {}
    /\ rejections' = {}
    /\ prevented' = <<>>
    /\ resolved' = {}
    /\ sink' = "ok"
    /\ reportResults' = <<>>
    /\ listeners' = {"App"}
    /\ hasError' = FALSE
    /\ boundaryRetryCount' = 0
    /\ retrying' = FALSE
    /\ autoRetryTimers' = 0
    /\ retryWaits' = 0
    /\ autoRetryLog' = <<>>
    /\ autoRetry' = autoRetry
    /\ pathname' = "/login"
    /\ UNCHANGED <<hasUIStore, mounted, hasElMessage, hasVueMessage, localToken,
                   sessionToken, sessionId>>

----------------------------------------------------------------------------
(* Specifications *)

\* The HTTP client with everything it drives.
Next ==
    \/ SendRequest
    \/ \E r \in inflight, code \in ResponseCodes, message \in ResponseMessages :
           ResponseFulfilled(r, code, message)
    \/ \E r \in inflight, f \in Failures : ResponseRejected(r, f)
    \/ \E rejection \in rejections : CallerCatches(rejection)
    \/ \E rejection \in rejections : RejectionUnhandled(rejection)
    \/ \E id \in armed : TimerExpiry(id)
    \/ \E id \in DismissIds : Dismiss(id)
    \/ RecoveryTimerFires
    \/ NavigationCommit

Spec == Init /\ [][Next]_vars

\* Requests in flight together that meet authentication failures.
NextAuth ==
    \/ SendRequestAuth
    \/ \E r \in inflight, code \in {0, 10002, 10004} : ResponseFulfilled(r, code, "")
    \/ \E r \in inflight : ResponseRejected(r, Failure401)
    \/ \E rejection \in rejections : CallerCatches(rejection)
    \/ \E rejection \in rejections : RejectionUnhandled(rejection)
    \/ \E id \in armed : TimerExpiry(id)
    \/ \E id \in DismissIds : Dismiss(id)
    \/ RecoveryTimerFires
    \/ NavigationCommit

SpecAuth == Init /\ [][NextAuth]_vars

\* The error handler and its capture points.
NextHandler ==
    \/ \E error \in RejectionReasons : UnhandledRejection(error)
    \/ \E error \in ScriptErrors : GlobalError(error)
    \/ VueError(PlainError)
    \/ \E c \in HandleErrorCalls : HandleError(c[1], c[2])
    \/ ClearHistory
    \/ RecoveryTimerFires

SpecHandler == InitPlain /\ [][NextHandler]_vars

\* The retry budgets beyond their ceiling.
NextRecovery ==
    \/ VueErrorAgain
    \/ UnhandledRejectionAgain
    \/ ClearHistory
    \/ RecoveryTimerFires

SpecRecovery == InitPlain /\ [][NextRecovery]_vars

\* The history beyond its capacity.
NextHistory ==
    \/ VueErrorMany
    \/ RecoveryTimerFires

SpecHistory == InitPlain /\ [][NextHistory]_vars

\* The classifier behind the capture points and the exported functions.
NextClassify ==
    \/ \E reason \in RawValues : RejectionOf(reason)
    \/ \E error \in ThrownInScripts : ScriptErrorOf(error)
    \/ \E raised \in RawValues : ComponentErrorOf(raised)
    \/ \E c \in ClassifiedCalls : HandleErrorOf(c[1], c[2])
    \/ ReportErrorOf(PlainError)

SpecClassify == InitPlain /\ [][NextClassify]_vars

\* Everyone who has records built: the capture points, the exported functions
\* and the HTTP client.
NextRecords ==
    \/ NextClassify
    \/ SendRequest
    \/ \E r \in inflight, f \in Failures : ResponseRejected(r, f)

SpecRecords == InitPlain /\ [][NextRecords]_vars

\* The reporting sink and its failures.
NextReport ==
    \/ \E outcome \in Sinks : VueErrorReporting(outcome)
    \/ \E outcome \in Sinks, error \in ScriptErrors : GlobalErrorReporting(outcome, error)
    \/ \E outcome \in Sinks, error \in {PlainError, MkString("disk full")} :
           ReportErrorCall(outcome, error)
    \/ RecoveryTimerFires

SpecReport == InitPlain /\ [][NextReport]_vars

\* The notification container.
NextNotify ==
    \/ \E notification \in NoteInputs : AddNotification(notification)
    \/ \E options \in ErrorOptions : ShowError(options)
    \/ \E c \in AlertCalls : ShowAlert(c[1], c[2])
    \/ \E id \in DismissIds : Dismiss(id)
    \/ \E id \in armed : TimerExpiry(id)
    \/ ClearAll
    \/ Mount
    \/ Unmount

SpecNotify == InitPlain /\ [][NextNotify]_vars

\* The error boundary, with the window events it also listens to.
NextBoundary ==
    \/ \E error \in BoundaryErrors : ErrorCaptured(error)
    \/ AutoRetryTimerFires
    \/ Retry
    \/ RetryResumes
    \/ Reset
    \/ \E reason \in BoundaryReasons : WindowRejection(reason)
    \/ \E error \in ScriptErrors : WindowError(error)
    \/ RecoveryTimerFires

SpecBoundary == InitBoundaryPage /\ [][NextBoundary]_vars

\* The error boundary with auto-retry on, and nobody calling reset().
NextAutoRetry ==
    \/ \E error \in BoundaryErrors : ErrorCaptured(error)
    \/ AutoRetryTimerFires
    \/ Retry
    \/ RetryResumes
    \/ RecoveryTimerFires

SpecAutoRetry == InitAutoRetry /\ [][NextAutoRetry]_vars

\* The token utilities, with the forced logout of a 401 response.
NextToken ==
    \/ \E token \in Tokens, remember \in BOOLEAN : SetToken(token, remember)
    \/ RemoveToken
    \/ SendRequest
    \/ \E r \in inflight : ResponseRejected(r, Failure401)
    \/ \E rejection \in rejections : CallerCatches(rejection)
    \/ NavigationCommit

SpecToken == Init /\ [][NextToken]_vars

\* The capture points with failures processError excludes.
NextExclude ==
    \/ \E error \in ExclusionErrors : HandleError(error, MkInfo(Absent, "low", Absent))
    \/ \E error \in ExclusionErrors : GlobalError(error)
    \/ ClearHistory
    \/ RecoveryTimerFires

SpecExclude == InitPlain /\ [][NextExclude]_vars

\* The statistics: failures of several kinds first, then many of one kind, with
\* the history cleared in between.
NextStatistics ==
    \/ \E error \in RejectionReasons : UnhandledRejection(error)
    \/ VueErrorMany
    \/ ClearHistoryEarlyOrLate

SpecStatistics == InitPlain /\ [][NextStatistics]_vars

----------------------------------------------------------------------------
(* Claims *)

Last(list) == list[Len(list)]

\* C1: the history never holds more than 50 records and is ordered most recent
\* first; a record that is added goes to the front, the records before it keep
\* their order behind it, and the oldest one is dropped when 50 were held.
C1_HistoryBounded ==
    /\ [](/\ Len(errorHistory) <= 50
          /\ \A i, j \in 1..Len(errorHistory) :
                 i < j => errorHistory[i].id > errorHistory[j].id)
    /\ [][errorHistory' # errorHistory =>
            LET n == Min(Len(errorHistory) + 1, 50)
            IN  /\ Len(errorHistory') = n
                /\ errorHistory'[1].id = nextErrorId
                /\ \A i \in 2..n : errorHistory'[i] = errorHistory[i - 1]]_vars

\* 51 records were added: the first one is gone, the 50 after it are held.
C1_Witness ==
    /\ errorCount = 51
    /\ Len(errorHistory) = 50
    /\ \A i \in 1..50 : errorHistory[i].id = 52 - i

\* C2: the attempt count of a key never exceeds maxRetries (3); a failure of a
\* key whose count is below 3 raises it by one and schedules one timer, and a
\* failure of a key whose count is 3 schedules none and leaves the counts.
C2_RetryCeiling ==
    /\ [](\A key \in DOMAIN retryAttempts : retryAttempts[key] <= 3)
    /\ [][errorCount' = errorCount + 1 =>
            LET key == <<errorHistory'[1].type, errorHistory'[1].context>>
                count == IF key \in DOMAIN retryAttempts THEN retryAttempts[key] ELSE 0
            IN  IF count >= 3
                THEN /\ recoveryTimers' = recoveryTimers
                     /\ retryAttempts' = retryAttempts
                ELSE /\ retryAttempts'[key] = count + 1
                     /\ Cardinality(recoveryTimers' \ recoveryTimers) = 1
                     /\ recoveryTimers \subseteq recoveryTimers']_vars

\* Four failures of one key were handled and its count stayed at 3.
C2_Witness ==
    /\ errorCount = 4
    /\ \A i \in 1..4 : errorHistory[i].type = "component_error"
    /\ retryAttempts[<<"component_error", "Vue Component Error">>] = 3

\* Every a in the log of the latest handling comes before every b.
Before(a, b) ==
    \A i, j \in 1..Len(steps) : (steps[i] = a /\ steps[j] = b) => i < j

Ran(a) == \E i \in 1..Len(steps) : steps[i] = a

C6_CriticalSticky ==
    (hasUIStore /\ errorHistory # <<>>) =>
        LET duration == Last(uiStore).duration
            severity == errorHistory[1].severity
        IN  /\ severity = "critical" => duration = 0
            /\ severity \in {"low", "medium", "high"} => duration > 0

\* C4: a notification with a positive duration leaves the active set when its
\* timer fires and not before, so one that is still active has its timer still
\* armed; one with duration 0 has no timer, and no timer callback removes it.
C4_TimerRemoves ==
    /\ [](\A i \in 1..Len(notifications) :
             /\ notifications[i].duration > 0 => notifications[i].created \in armed
             /\ notifications[i].duration = 0 => notifications[i].created \notin armed)
    /\ [][\A id \in armed : TimerExpiry(id) =>
            \A i \in 1..Len(notifications) :
                notifications[i].duration = 0 =>
                    \E j \in 1..Len(notifications') : notifications'[j] = notifications[i]]_vars

\* C5: every armed timer belongs to a notification that is in the active set,
\* and the Map of timers holds exactly the armed timers.
C5_TimersOfActive ==
    /\ \A id \in armed : \E i \in 1..Len(notifications) : notifications[i].id = id
    /\ timers = armed

\* C7: an error notification shown with the error() helper or with
\* showAlert({type: 'error'}) has the caller's duration when one is given and
\* duration 0 otherwise, and a timer is armed for it only when it is positive.
C7_ErrorDuration ==
    [][/\ \A options \in ErrorOptions : ShowError(options) =>
            LET n == Last(notifications')
            IN  /\ n.type = "error"
                /\ n.duration = IF options.duration = NoNumber THEN 0 ELSE options.duration
                /\ n.created \in armed' <=> n.duration > 0
       /\ \A duration \in {NoNumber, 3000} : (mounted /\ ShowAlert("error", duration)) =>
            LET n == Last(notifications')
            IN  /\ n.type = "error"
                /\ n.duration = IF duration = NoNumber THEN 0 ELSE duration
                /\ n.created \in armed' <=> n.duration > 0]_vars

\* Error notifications of both kinds are active: a sticky one without a timer and
\* one with the caller's duration and a timer.
C7_Witness ==
    /\ \E i \in 1..Len(notifications) :
           /\ notifications[i].type = "error"
           /\ notifications[i].duration = 0
           /\ notifications[i].created \notin armed
    /\ \E i \in 1..Len(notifications) :
           /\ notifications[i].type = "error"
           /\ notifications[i].duration = 3000
           /\ notifications[i].created \in armed

\* C8: when a request fails with 401 after a logout was triggered while it was in
\* flight by another request that failed with 401, its own logout trigger does
\* nothing: no second 'auth:logout' event and no second navigation.
C8_LogoutOnce ==
    [][\A r \in inflight :
          (/\ r.sentAfter < logoutEvents
           /\ \E other \in rejections : other.error.status = 401
           /\ ResponseRejected(r, Failure401))
          => (logoutEvents' = logoutEvents /\ hrefAssigned' = hrefAssigned)]_vars

\* The response interceptor meets an authentication failure of request r.
AuthFailure401(r) == ResponseRejected(r, Failure401)

AuthFailureCode(r) ==
    \E code \in {10002, 10004} : ResponseFulfilled(r, code, "")

TokenRemoved == localToken' = Absent /\ sessionToken' = Absent

AuthWarningShown(duration) ==
    IF mounted
    THEN /\ Len(notifications') = Len(notifications) + 1
         /\ Last(notifications').type = "warning"
         /\ Last(notifications').duration = duration
         /\ Last(notifications').created \in armed'
    ELSE /\ Len(otherAlerts') = Len(otherAlerts) + 1
         /\ Last(otherAlerts').type = "warning"
         /\ Last(otherAlerts').duration # 0

C10_OperationFailed ==
    [][/\ \A r \in inflight : ResponseFulfilled(r, -1, "quota exceeded") =>
            /\ mounted => (/\ Len(notifications') = Len(notifications) + 1
                           /\ Last(notifications').type = "error"
                           /\ Last(notifications').message = "quota exceeded"
                           /\ Last(notifications').duration > 0)
            /\ retryAttempts' = retryAttempts
            /\ recoveryTimers' = recoveryTimers
       /\ \A rejection \in rejections :
            (rejection.error.message = "quota exceeded" /\ RejectionUnhandled(rejection)) =>
                /\ retryAttempts' = retryAttempts
                /\ recoveryTimers' = recoveryTimers]_vars

\* C11: every failed call is rejected back to its caller and never resolves: a
\* timeout, a missing response, a 401, another 4xx, a 5xx, any other request
\* error and the body codes 10002, 10004 and -1 each leave a rejection for the
\* request, whatever notification or reporting branch ran; only a response
\* without a reserved body code resolves.
C11_FailuresRejected ==
    /\ [](\A rejection \in rejections : rejection.req \notin resolved)
    /\ [][\A r \in inflight :
            /\ \A f \in Failures : ResponseRejected(r, f) =>
                   /\ r.id \notin resolved'
                   /\ \E rejection \in rejections' :
                          rejection.req = r.id /\ rejection.error.message = f[3]
            /\ \A code \in {10002, 10004, -1}, message \in ResponseMessages :
                   ResponseFulfilled(r, code, message) =>
                       /\ r.id \notin resolved'
                       /\ \E rejection \in rejections' : rejection.req = r.id
            /\ \A message \in ResponseMessages : ResponseFulfilled(r, 0, message) =>
                   /\ r.id \in resolved'
                   /\ \A rejection \in rejections' : rejection.req # r.id]_vars

\* A 5xx failure went through the notification and reporting branch and the
\* request is rejected, not resolved.
C11_Witness ==
    /\ \E rejection \in rejections : rejection.error.status = 500
    /\ errorCount = 1
    /\ resolved = {}
    /\ inflight = {}

\* C12: reportError never throws to or rejects for its caller: whatever fails (the
\* analytics hook, the serialization, the network call), the promise it returns
\* is fulfilled and the failure is only logged; the count, the history and the
\* retry budgets are what they are when nothing fails: untouched by the exported
\* reportError, and one more record and one more attempt in processError.
C12_ReportNeverThrows ==
    /\ [](\A i \in 1..Len(reportResults) : reportResults[i].promise = "fulfilled")
    /\ [][\A outcome \in Sinks :
            /\ \A error \in {PlainError, MkString("disk full")} :
                   ReportErrorCall(outcome, error) =>
                       /\ Len(reportResults') = Len(reportResults) + 1
                       /\ Last(reportResults').logged =
                              CASE outcome = "gtag_throws" -> "gtag"
                                [] outcome = "stringify_throws" -> "stringify"
                                [] outcome = "fetch_rejects" -> "fetch"
                                [] OTHER -> Absent
                       /\ errorCount' = errorCount
                       /\ errorHistory' = errorHistory
                       /\ retryAttempts' = retryAttempts
                       /\ recoveryTimers' = recoveryTimers
            /\ VueErrorReporting(outcome) =>
                   /\ Len(reportResults') = Len(reportResults) + 1
                   /\ errorCount' = errorCount + 1
                   /\ Len(errorHistory') = Len(errorHistory) + 1
                   /\ retryAttempts'[<<"component_error", "Vue Component Error">>] =
                          Min(retryCountOf(retryAttempts,
                                  <<"component_error", "Vue Component Error">>) + 1, 3)
                   /\ Ran("listeners")']_vars

\* The serialization failed in one call and the network in the next, and both
\* promises are fulfilled.
C12_Witness ==
    /\ Len(reportResults) = 2
    /\ reportResults[1].logged = "stringify"
    /\ reportResults[2].logged = "fetch"
    /\ errorCount = 1

\* C13: the payload handed to fetch has every field of the record with the
\* record's value, except originalError, which it does not have; the record in
\* the history still has its originalError.
C13_PayloadWithoutRaw ==
    /\ \A i \in 1..Len(reports) :
           /\ "originalError" \notin DOMAIN reports[i]
           /\ DOMAIN reports[i] =
                  {"id", "message", "stack", "name", "type", "severity", "context",
                   "sessionId"}
    /\ \A i \in 1..Len(errorHistory) :
           /\ "originalError" \in DOMAIN errorHistory[i]
           /\ errorHistory[i].originalError.kind = "Error"
           /\ \A j \in 1..Len(reports) :
                  reports[j].id = errorHistory[i].id =>
                      \A k \in DOMAIN reports[j] : reports[j][k] = errorHistory[i][k]

\* Two records were reported and are in the history with their raw exception.
C13_Witness ==
    /\ Len(reports) = 2
    /\ Len(errorHistory) = 2
    /\ \A i \in 1..2 : errorHistory[i].originalError.message # Absent
    /\ \E i \in 1..2 : reports[i].id = errorHistory[1].id

\* C14: totalErrors never decreases, whatever is handled or cleared, while the
\* breakdowns by type and by severity count the records that are in the history
\* now (so they sum to its length, not to totalErrors).
C14_TotalMonotonic ==
    /\ [](LET statistics == getStatistics(W)
          IN  /\ statistics.recentErrors = Len(errorHistory)
              /\ \A t \in ErrorTypes :
                     (IF t \in DOMAIN statistics.typeBreakdown
                      THEN statistics.typeBreakdown[t] ELSE 0)
                     = Len(SelectSeq(errorHistory, LAMBDA r : r.type = t))
              /\ \A v \in ErrorSeverity :
                     (IF v \in DOMAIN statistics.severityBreakdown
                      THEN statistics.severityBreakdown[v] ELSE 0)
                     = Len(SelectSeq(errorHistory, LAMBDA r : r.severity = v)))
    /\ [][getStatistics(W)'.totalErrors >= getStatistics(W).totalErrors]_vars

\* C15: every record the classifier built, whoever asked for it (the three
\* capture handlers, the HTTP client, the exported handleError with any context),
\* has one of the eight error types and one of the four severities.
C15_ValidTypeAndSeverity ==
    \A i \in 1..Len(errorHistory) :
        /\ errorHistory[i].type \in
               {"component_error", "network_error", "javascript_error",
                "promise_rejection", "authentication_error", "permission_error",
                "validation_error", "unknown_error"}
        /\ errorHistory[i].severity \in {"low", "medium", "high", "critical"}

\* C16: when a script raises the string "disk full" (a window 'error' event
\* whose error is that string), a record is built that has the script type,
\* the string as its message and no stack.
C16_StringHasNoStack ==
    [][ScriptErrorOf(MkString("disk full")) =>
          /\ errorCount' = errorCount + 1
          /\ errorHistory'[1].type = "javascript_error"
          /\ errorHistory'[1].message = "disk full"
          /\ errorHistory'[1].stack = Absent]_vars

\* C17: for every Error of a window 'error' event, determineSeverity answers
\* critical when the name is ChunkLoadError or the message has 'Loading chunk' or
\* 'Script error', also when the message has 'Cannot read prop' too; otherwise
\* high for a TypeError whose message has 'Cannot read prop'; otherwise medium;
\* never low.  The record that is built carries that severity.
C17_SeverityRules ==
    [][\A error \in ThrownInScripts :
          (error.kind = "Error" /\ ScriptErrorOf(error)) =>
              LET loading == error.message \in
                      {"Loading chunk 5 failed",
                       "Loading chunk 5 failed: Cannot read properties of null"}
                  nullAccess == error.message \in
                      {"Cannot read properties of null",
                       "Loading chunk 5 failed: Cannot read properties of null"}
                  expected ==
                      IF error.name = "ChunkLoadError" \/ loading
                         \/ error.message = "Script error."
                      THEN "critical"
                      ELSE IF error.name = "TypeError" /\ nullAccess
                      THEN "high"
                      ELSE "medium"
              IN  /\ determineSeverity(error) = expected
                  /\ determineSeverity(error) # "low"
                  /\ errorCount' = errorCount + 1 =>
                         errorHistory'[1].severity = expected]_vars

\* A TypeError that matches both patterns was classified critical, and one that
\* matches only the null-access pattern high.
C17_Witness ==
    /\ Len(errorHistory) = 2
    /\ \E i \in 1..2 :
           /\ errorHistory[i].name = "TypeError"
           /\ errorHistory[i].message =
                  "Loading chunk 5 failed: Cannot read properties of null"
           /\ errorHistory[i].severity = "critical"
    /\ \E i \in 1..2 :
           /\ errorHistory[i].name = "TypeError"
           /\ errorHistory[i].message = "Cannot read properties of null"
           /\ errorHistory[i].severity = "high"

\* C18: building a record changes nothing: where a handler does no more than
\* build one (the exported reportError, which then only reports it, and a window
\* 'error' event whose message is excluded), the count, the history, the retry
\* budgets, the listeners and the browser storage are left as they were.
C18_CreateErrorInfoPure ==
    [][(ReportErrorOf(PlainError) \/ ScriptErrorOf(MkError("Script error.", "Error", FALSE))) =>
          /\ errorCount' = errorCount
          /\ errorHistory' = errorHistory
          /\ retryAttempts' = retryAttempts
          /\ listeners' = listeners
          /\ localToken' = localToken
          /\ sessionToken' = sessionToken
          /\ sessionId' = sessionId]_vars

\* C19: the unhandled-rejection listener marks the event handled for every
\* reason that is not tagged as the HTTP client's, whatever its kind; for a
\* tagged reason it does not mark the event and leaves the count, the history,
\* the retry budgets and the recovery timers alone and notifies no listener.
C19_TaggedRejectionSkipped ==
    [][\A reason \in RawValues : RejectionOf(reason) =>
          /\ Len(prevented') = Len(prevented) + 1
          /\ Last(prevented') = ~reason.marked
          /\ reason.marked =>
                 /\ errorCount' = errorCount
                 /\ errorHistory' = errorHistory
                 /\ retryAttempts' = retryAttempts
                 /\ recoveryTimers' = recoveryTimers
                 /\ steps' = steps
                 /\ uiStore' = uiStore
                 /\ reports' = reports
                 /\ sessionId' = sessionId]_vars

\* A tagged rejection was skipped after another one was handled and marked.
C19_Witness ==
    /\ prevented = <<TRUE, FALSE>>
    /\ errorCount = 1
    /\ errorHistory[1].type = "promise_rejection"
    /\ Ran("listeners")

\* C20: every rejection that leaves the response interceptor carries the marker,
\* and when its caller leaves it uncaught the unhandled-rejection listener skips
\* it: no record is added and no notification is shown for it a second time.
C20_HandledOnce ==
    /\ [](\A rejection \in rejections : rejection.error.marked)
    /\ [][\A rejection \in rejections : RejectionUnhandled(rejection) =>
            /\ Last(prevented') = FALSE
            /\ errorCount' = errorCount
            /\ errorHistory' = errorHistory
            /\ uiStore' = uiStore
            /\ alerts' = alerts
            /\ notifications' = notifications]_vars

\* C21: whenever the response interceptor shows the user something about a
\* failure, a record was classified for that failure in the same handling
\* (createErrorInfo ran), and what is shown is not the raw message of the error.
C21_ShownFromRecords ==
    [][\A r \in inflight, f \in Failures : ResponseRejected(r, f) =>
          /\ (\/ Len(notifications') > Len(notifications)
              \/ Len(otherAlerts') > Len(otherAlerts))
                 => nextErrorId' = nextErrorId + 1
          /\ mounted => Last(notifications').message # f[3]]_vars

\* C22: every error the boundary captures is fully absorbed: the hook returns
\* false and never throws, so nothing reaches app.config.errorHandler (the
\* global handler's state is as before), the fallback is displayed, and the
\* fallback stays displayed until retry or reset ran.
C22_Absorbed ==
    [][/\ \A error \in BoundaryErrors : ErrorCaptured(error) =>
              /\ hasError'
              /\ nextErrorId' = nextErrorId
              /\ errorHistory' = errorHistory
       /\ (hasError /\ ~hasError') => (RetryResumes \/ Reset)]_vars

\* C27: with autoRetry on, the auto-retries that ran are never more than
\* maxRetries.
C27_AutoRetryLimit ==
    autoRetry => Len(autoRetryLog) <= props_maxRetries

\* C23: a correlation key that reached the retry ceiling stays exhausted: its
\* count stays and no failure schedules a retry for it, until clearHistory runs;
\* clearHistory empties the budgets, and the next failure of a key then counts
\* as its first attempt and schedules a retry again.
C23_ExhaustedUntilCleared ==
    [][/\ \A key \in DOMAIN retryAttempts :
              (retryAttempts[key] >= maxRetries /\ ~ClearHistory) =>
                  /\ key \in DOMAIN retryAttempts'
                  /\ retryAttempts'[key] = retryAttempts[key]
                  /\ \A t \in recoveryTimers' \ recoveryTimers : t.key # key
       /\ ClearHistory => retryAttempts' = EmptyMap
       /\ (retryAttempts = EmptyMap /\ errorCount' = errorCount + 1) =>
              LET key == <<errorHistory'[1].type, errorHistory'[1].context>>
              IN  /\ retryAttempts'[key] = 1
                  /\ \E t \in recoveryTimers' \ recoveryTimers :
                         t.key = key /\ t.delay = retryDelay]_vars

\* A key was exhausted (the timer of its third attempt is pending), the history
\* was cleared, and a later failure of the key scheduled a first retry again.
C23_Witness ==
    \E third, again \in recoveryTimers :
        /\ third.key = again.key
        /\ third.delay = 3 * retryDelay
        /\ again.id > third.id
        /\ again.delay = retryDelay
        /\ retryAttempts[again.key] = 1
        /\ errorCount = 1

\* C24: the token is in at most one of localStorage and sessionStorage; after
\* setToken(t, remember) it is in localStorage iff remember, and for a non-empty
\* t getToken returns t and isAuthenticated is true; after removeToken getToken
\* returns null and isAuthenticated is false.
C24_TokenInOneStorage ==
    /\ [](localToken = Absent \/ sessionToken = Absent)
    /\ [][/\ \A token \in Tokens, remember \in BOOLEAN :
                 SetToken(token, remember) =>
                     /\ (localToken' # Absent) <=> remember
                     /\ (sessionToken' # Absent) <=> ~remember
                     /\ token # "" => /\ getToken(W') = token
                                      /\ isAuthenticated(W')
          /\ RemoveToken => /\ getToken(W') = Absent
                            /\ ~isAuthenticated(W')]_vars

\* After a forced logout removed the token, a new one was stored in
\* sessionStorage only.
C24_Witness ==
    /\ sessionToken = "renewed"
    /\ localToken = Absent
    /\ logoutEvents = 1

\* what the latest showAlert showed: the type of the newest notification, or
\* of the newest message of another backend when the container is not mounted
ShownType(note, other) ==
    IF mounted THEN Last(note).type ELSE Last(other).type

\* C25: a 5xx response, a timeout and a no-response failure each show an error
\* and are reported to the global handler (one record more in its history, its
\* count one higher); a 4xx response other than 401 shows a warning and
\* leaves the global handler's state as it was.
C25_StatusBands ==
    [][\A r \in inflight, f \in Failures : ResponseRejected(r, f) =>
          IF \/ f[1] \in {"timeout", "request"}
             \/ (f[1] = "response" /\ f[2] >= 500)
          THEN /\ ShownType(notifications', otherAlerts') = "error"
               /\ errorCount' = errorCount + 1
               /\ Len(errorHistory') = Len(errorHistory) + 1
               /\ errorHistory'[1].type = "network_error"
          ELSE IF f[1] = "response" /\ f[2] >= 400 /\ f[2] # 401
          THEN /\ ShownType(notifications', otherAlerts') = "warning"
               /\ errorCount' = errorCount
               /\ errorHistory' = errorHistory
               /\ retryAttempts' = retryAttempts
               /\ recoveryTimers' = recoveryTimers
               /\ reports' = reports
          ELSE TRUE]_vars

\* C26: every failure processError handles (it is counted) is appended to the
\* history and shown to the user, by the UI store, the notification container
\* or an alert, whatever its severity and whichever backend is installed.
C26_ProcessedIsShown ==
    [][errorCount' = errorCount + 1 =>
          /\ Len(errorHistory') >= 1
          /\ errorHistory'[1].id = nextErrorId
          /\ \/ Len(uiStore') > Len(uiStore)
             \/ Len(notifications') > Len(notifications)
             \/ Len(alerts') > Len(alerts)]_vars

\* C28: the id generated at creation is the id the notification is stored
\* under (it is the one addNotification returns and the timer callback uses),
\* so the expiry of a timer removes exactly the notification it was armed for.
C28_GeneratedIdStored ==
    /\ [](\A i \in 1..Len(notifications) :
             notifications[i].id = notifications[i].created)
    /\ [][\A id \in armed : TimerExpiry(id) =>
             /\ Len(notifications') = Len(notifications) - 1
             /\ \A j \in 1..Len(notifications') : notifications'[j].created # id]_vars

\* C29: processError on a record whose message contains 'Script error',
\* 'Network Error' or 'ChunkLoadError' does nothing: count, history and retry
\* budgets stay, nothing is shown or reported, no recovery is scheduled and no
\* listener is called (no step runs after the classification).
C29_ExcludedIsNoOp ==
    [][\A error \in ExclusionErrors :
          ( /\ \/ HandleError(error, MkInfo(Absent, "low", Absent))
               \/ GlobalError(error)
            /\ error.message \in {"Script error.", "Network Error",
                                  "ChunkLoadError: chunk 5"} ) =>
              /\ errorCount' = errorCount
              /\ errorHistory' = errorHistory
              /\ retryAttempts' = retryAttempts
              /\ recoveryTimers' = recoveryTimers
              /\ uiStore' = uiStore
              /\ alerts' = alerts
              /\ notifications' = notifications
              /\ reports' = reports
              /\ reportResults' = reportResults
              /\ steps' = <<"classify">>]_vars

\* One failure was processed, and after it an excluded one was handed in and
\* left the handler's state.
C29_Witness ==
    /\ nextErrorId = 3
    /\ errorCount = 1
    /\ Len(errorHistory) = 1
    /\ errorHistory[1].id = 1
    /\ steps = <<"classify">>

\* the sum of the counts of a breakdown
RECURSIVE SumOf(_)
SumOf(breakdown) ==
    IF DOMAIN breakdown = {}
    THEN 0
    ELSE LET k == CHOOSE k \in DOMAIN breakdown : TRUE
         IN  breakdown[k] + SumOf([j \in DOMAIN breakdown \ {k} |-> breakdown[j]])

\* C30: the statistics are consistent in every state: recentErrors is the
\* length of the history, it is at most totalErrors and at most 50, and the
\* counts of typeBreakdown and of severityBreakdown each sum to recentErrors.
C30_StatisticsConsistent ==
    LET statistics == getStatistics(W)
    IN  /\ statistics.recentErrors = Len(errorHistory)
        /\ statistics.recentErrors <= statistics.totalErrors
        /\ statistics.recentErrors <= 50
        /\ SumOf(statistics.typeBreakdown) = statistics.recentErrors
        /\ SumOf(statistics.severityBreakdown) = statistics.recentErrors

\* After the history was cleared, more failures than it holds were processed:
\* it is full, the total is higher, and it holds records of several types.
C30_Witness ==
    LET statistics == getStatistics(W)
    IN  /\ statistics.recentErrors = 50
        /\ statistics.totalErrors = 51
        /\ nextErrorId = 53
        /\ Cardinality(DOMAIN statistics.typeBreakdown) >= 2

====
